---- MODULE Spec2Model ----
(***************************************************************************)
(* Model of the thermal control loop of src/fan-controller.py              *)
(* (class FanController) and of the configuration handler of its web       *)
(* interface (RequestHandler.handle_config_update).                         *)
(*                                                                         *)
(* One iteration of FanController.run is a sequence of steps, one per call *)
(* the loop makes; pc is the position of the loop thread.  The web thread  *)
(* runs handle_config_update between any two steps of the loop.            *)
(*                                                                         *)
(* Temperatures are integers (degrees), a fan speed is the text the code   *)
(* handles ("0x32"), written as the sequence of its characters.            *)
(***************************************************************************)
EXTENDS Integers, Sequences, FiniteSets, TLC

VARIABLES
    SYSTEMD_WATCHDOG,        \* module flag: import systemd.daemon succeeded
    config,                  \* self.config (thresholds, fan_speeds, static_peripheral, polling, ...)
    versions,                \* the values self.config has had since the iteration started, in order
    current_speeds,          \* self.current_speeds: zone -> last applied speed text
    poll_interval,           \* self.poll_interval
    high_load_start,         \* self.high_load_start
    high_load_alerted,       \* self.high_load_alerted
    emergency_active,        \* self.emergency_active
    safety_override_active,  \* self.safety_override_active
    temp_log,                \* self.temp_log
    high_load_events,        \* self.high_load_events
    pc,                      \* position of the loop thread in run()
    all_temps,               \* run(): all_temps
    safety_floor_active,     \* run(): safety_floor_active
    cpu_temp,                \* run(): cpu_temp
    periph_temp,             \* run(): periph_temp
    new_speeds,              \* run(): new_speeds
    load_states,             \* run(): load_states
    original_speeds,         \* run(): original_speed of each zone (the decided speed)
    floor_speed,             \* run(): floor_speed
    worst_state,             \* check_alerts(): worst_state, as last computed
    out,                     \* what the iteration printed, logged, sent to ipmitool and systemd
    now                      \* the clock read by time.time() and datetime.now()

vars == << SYSTEMD_WATCHDOG, config, versions, current_speeds, poll_interval, high_load_start, high_load_alerted,
           emergency_active, safety_override_active, temp_log, high_load_events,
           pc, all_temps, safety_floor_active, cpu_temp, periph_temp, new_speeds,
           load_states, original_speeds, floor_speed, worst_state, out, now >>

(***************************************************************************)
(* Bounds of the model.                                                    *)
(***************************************************************************)
\* the clock stops the model at MaxTime
MaxTime == 6
\* the requests the web thread handles during one iteration of the loop
MaxRequests == 1

(***************************************************************************)
(* Python values.                                                          *)
(***************************************************************************)
\* None where the code expects a number (a temperature, a time)
None == -1
\* None where the code expects a speed text
NoSpeed == << >>
\* a local of run() that the iteration has not assigned yet
Unset == "unset"

Max(a, b) == IF a >= b THEN a ELSE b

(***************************************************************************)
(* Speed texts: int(text, 16) and f"0x{value:02x}".                        *)
(***************************************************************************)
LowerDigits == << "0", "1", "2", "3", "4", "5", "6", "7", "8", "9",
                  "a", "b", "c", "d", "e", "f" >>
UpperDigits == << "0", "1", "2", "3", "4", "5", "6", "7", "8", "9",
                  "A", "B", "C", "D", "E", "F" >>

IsHexDigit(c) == \E i \in 1..16 : LowerDigits[i] = c \/ UpperDigits[i] = c

DigitValue(c) == (CHOOSE i \in 1..16 : LowerDigits[i] = c \/ UpperDigits[i] = c) - 1

\* the digits of a text, its "0x" or "0X" prefix removed
StripPrefix(text) ==
    IF Len(text) >= 2 /\ text[1] = "0" /\ text[2] \in {"x", "X"}
    THEN SubSeq(text, 3, Len(text))
    ELSE text

RECURSIVE DigitsValue(_)
DigitsValue(digits) ==
    IF digits = << >> THEN 0
    ELSE 16 * DigitsValue(SubSeq(digits, 1, Len(digits) - 1))
         + DigitValue(digits[Len(digits)])

\* int(text, 16) raises ValueError
IsHexText(text) ==
    /\ StripPrefix(text) # << >>
    /\ \A i \in 1..Len(StripPrefix(text)) : IsHexDigit(StripPrefix(text)[i])

\* int(text, 16), for a text it accepts
HexValue(text) == DigitsValue(StripPrefix(text))

RECURSIVE HexDigitsOf(_)
HexDigitsOf(value) ==
    IF value < 16 THEN << LowerDigits[value + 1] >>
    ELSE Append(HexDigitsOf(value \div 16), LowerDigits[(value % 16) + 1])

\* f"0x{value:02x}"
FormatHex(value) ==
    << "0", "x" >> \o (IF value < 16 THEN << "0" >> ELSE << >>) \o HexDigitsOf(value)

(***************************************************************************)
(* The configuration file the controller is started with: config.yaml as   *)
(* load_config reads it.  Degrees are scaled down (moderate 1, high 2,      *)
(* emergency 3, safety floor 4) and so are the seconds.                     *)
(***************************************************************************)
Zones == << "cpu", "peripheral" >>

ZoneSet == {"cpu", "peripheral"}

\* texts of duty values
Speed(hi, lo) == << "0", "x", hi, lo >>

BaseConfig ==
    [ sensors |-> [ cpu_zone |-> << "CPU" >>, peripheral_zone |-> << "PCH" >> ],
      thresholds |-> [ moderate |-> 1, high |-> 2, emergency |-> 3, safety_floor |-> 4 ],
      fan_speeds |-> [ idle |-> Speed("1", "0"), moderate |-> Speed("2", "0"),
                       high |-> Speed("4", "0"), emergency |-> Speed("6", "4"),
                       safety_floor_speed |-> Speed("3", "c"),
                       error_safe |-> Speed("5", "0") ],
      static_peripheral |-> [ enabled |-> FALSE, speed |-> << "0", "x", "8" >> ],
      polling |-> [ normal |-> 2, high_load |-> 1 ],
      alerts |-> [ sustained_high_load |-> 2, high_load_event_window |-> 3,
                   high_load_event_threshold |-> 2 ],
      logging |-> [ temp_log_size |-> 2 ] ]

\* the sensors of config['sensors'], in the order of the dictionary
SensorOrder(cfg) == cfg.sensors.cpu_zone \o cfg.sensors.peripheral_zone

Elements(seq) == { seq[i] : i \in 1..Len(seq) }

SensorSet(cfg) == Elements(SensorOrder(cfg))

\* what get_sensor_temp can return: a reading, or None when the read fails
Temperatures == 0..4

Readings == Temperatures \cup {None}

\* the results of reading each of the sensors once, where allowed[s] is what the
\* hardware can answer for sensor s
ReadingsOf(sensors, allowed) ==
    { reading \in [sensors -> Readings] : \A s \in sensors : reading[s] \in allowed[s] }

(***************************************************************************)
(* Pure helpers of FanController.                                          *)
(***************************************************************************)
\* max(values) of a non-empty set of numbers
MaxOf(S) == CHOOSE m \in S : \A x \in S : x <= m

\* get_zone_max_temp giving up as soon as one sensor of the zone cannot be read
get_zone_max_temp_all_or_nothing(sensors, reading) ==
    IF sensors = << >> \/ \E i \in 1..Len(sensors) : reading[sensors[i]] = None THEN None
    ELSE MaxOf({ reading[sensors[i]] : i \in 1..Len(sensors) })

\* get_zone_max_temp: the maximum of the sensors of the zone that were read
get_zone_max_temp(sensors, reading) ==
    LET temps == { i \in 1..Len(sensors) : reading[sensors[i]] # None }
    IN IF sensors = << >> \/ temps = {} THEN None
       ELSE MaxOf({ reading[sensors[i]] : i \in temps })

\* get_all_temps: the dictionary of the sensors that were read; a sensor whose read
\* failed has no entry (None here)
get_all_temps(cfg, reading) == [ s \in SensorSet(cfg) |-> reading[s] ]

\* the keys of all_temps
Keys(temps) == { s \in DOMAIN temps : temps[s] # None }

\* an empty all_temps
NoTemps(cfg) == [ s \in SensorSet(cfg) |-> None ]

\* max(all_temps, key=all_temps.get): the first sensor, in dictionary order, with
\* the maximum reading
MaxSensor(cfg, temps) ==
    LET order == SensorOrder(cfg)
        m == MaxOf({ temps[s] : s \in Keys(temps) })
        first == CHOOSE i \in 1..Len(order) :
                    /\ temps[order[i]] = m
                    /\ \A j \in 1..(i - 1) : temps[order[j]] # m
    IN order[first]

\* determine_fan_speed with exclusive comparisons: a reading equal to a threshold
\* stays in the lower band
determine_fan_speed_exclusive(cfg, temp) ==
    IF temp = None THEN << cfg.fan_speeds.error_safe, "error" >>
    ELSE IF temp > cfg.thresholds.emergency THEN << cfg.fan_speeds.emergency, "emergency" >>
    ELSE IF temp > cfg.thresholds.high THEN << cfg.fan_speeds.high, "high" >>
    ELSE IF temp > cfg.thresholds.moderate THEN << cfg.fan_speeds.moderate, "moderate" >>
    ELSE << cfg.fan_speeds.idle, "idle" >>

\* determine_fan_speed testing the high threshold before the emergency threshold
determine_fan_speed_high_first(cfg, temp) ==
    IF temp = None THEN << cfg.fan_speeds.error_safe, "error" >>
    ELSE IF temp >= cfg.thresholds.high THEN << cfg.fan_speeds.high, "high" >>
    ELSE IF temp >= cfg.thresholds.emergency THEN << cfg.fan_speeds.emergency, "emergency" >>
    ELSE IF temp >= cfg.thresholds.moderate THEN << cfg.fan_speeds.moderate, "moderate" >>
    ELSE << cfg.fan_speeds.idle, "idle" >>

\* determine_fan_speed: << speed, load state >>
determine_fan_speed(cfg, temp) ==
    IF temp = None THEN << cfg.fan_speeds.error_safe, "error" >>
    ELSE IF temp >= cfg.thresholds.emergency THEN << cfg.fan_speeds.emergency, "emergency" >>
    ELSE IF temp >= cfg.thresholds.high THEN << cfg.fan_speeds.high, "high" >>
    ELSE IF temp >= cfg.thresholds.moderate THEN << cfg.fan_speeds.moderate, "moderate" >>
    ELSE << cfg.fan_speeds.idle, "idle" >>

\* the characters of the speed texts, in the order of their codes
Characters == << "0", "1", "2", "3", "4", "5", "6", "7", "8", "9",
                "A", "B", "C", "D", "E", "F", "X",
                "a", "b", "c", "d", "e", "f", "x", "z" >>

Code(c) == CHOOSE i \in 1..Len(Characters) : Characters[i] = c

\* a < b for two strings
RECURSIVE TextLess(_, _)
TextLess(a, b) ==
    IF b = << >> THEN FALSE
    ELSE IF a = << >> THEN TRUE
    ELSE IF Head(a) # Head(b) THEN Code(Head(a)) < Code(Head(b))
    ELSE TextLess(Tail(a), Tail(b))

\* apply_speed_floor as a comparison of the texts: max(speed_hex, floor_hex)
apply_speed_floor_textual(speed_hex, floor_hex) ==
    IF TextLess(speed_hex, floor_hex) THEN floor_hex ELSE speed_hex

\* apply_speed_floor, for two texts int(_, 16) accepts
apply_speed_floor(speed_hex, floor_hex) ==
    FormatHex(Max(HexValue(speed_hex), HexValue(floor_hex)))

\* state_priority.get(s, 0)
state_priority(s) ==
    CASE s = "idle" -> 0
      [] s = "moderate" -> 1
      [] s = "high" -> 2
      [] s = "emergency" -> 3
      [] s = "error" -> 2
      [] OTHER -> 0

\* a maximum that resolves a tie of priorities in favour of the later zone
worst_of_last(states) ==
    IF state_priority(states["peripheral"]) >= state_priority(states["cpu"])
    THEN states["peripheral"]
    ELSE states["cpu"]

\* max(load_states.values(), key=...): the first zone's state unless the second
\* zone's state has a strictly higher priority
worst_of(states) ==
    IF state_priority(states["peripheral"]) > state_priority(states["cpu"])
    THEN states["peripheral"]
    ELSE states["cpu"]

(***************************************************************************)
(* What an iteration writes: print, syslog, ipmitool raw, systemd notify.  *)
(***************************************************************************)
Event(kind, zone, speed, temp, ok) ==
    [ ev |-> kind, zone |-> zone, speed |-> speed, temp |-> temp, ok |-> ok ]

Note(kind) == Event(kind, "", NoSpeed, None, TRUE)

Emitted(kind) == \E i \in 1..Len(out) : out[i].ev = kind

CountOf(kind) == Cardinality({ i \in 1..Len(out) : out[i].ev = kind })

Commands(zone) == { i \in 1..Len(out) : out[i].ev = "set_fan_speed" /\ out[i].zone = zone }

(***************************************************************************)
(* FanController.__init__                                                  *)
(***************************************************************************)
NoSpeeds == [ z \in ZoneSet |-> NoSpeed ]

NoStates == [ z \in ZoneSet |-> Unset ]

\* the locals of run() before the iteration assigns them
LocalsUnset ==
    /\ all_temps = NoTemps(config)
    /\ safety_floor_active = FALSE
    /\ cpu_temp = None
    /\ periph_temp = None
    /\ new_speeds = NoSpeeds
    /\ load_states = NoStates
    /\ original_speeds = NoSpeeds
    /\ floor_speed = NoSpeed
    /\ out = << >>

\* the runtime state __init__ sets
Constructed(cfg) ==
    /\ config = cfg
    /\ versions = << cfg >>
    /\ current_speeds = [ z \in ZoneSet |-> NoSpeed ]
    /\ poll_interval = cfg.polling.normal
    /\ high_load_start = None
    /\ high_load_alerted = FALSE
    /\ emergency_active = FALSE
    /\ safety_override_active = FALSE
    /\ temp_log = << >>
    /\ high_load_events = << >>
    /\ worst_state = Unset
    /\ now = 0

\* the controller of a host on which import systemd.daemon succeeds
ControllerInit(cfg) ==
    /\ SYSTEMD_WATCHDOG = TRUE
    /\ Constructed(cfg)
    /\ pc = "get_all_temps"
    /\ LocalsUnset

(***************************************************************************)
(* FanController.run: one action per step of an iteration.                 *)
(***************************************************************************)
ControllerVars == << current_speeds, poll_interval, high_load_start, high_load_alerted,
                     emergency_active, safety_override_active, temp_log,
                     high_load_events, worst_state >>

AlertVars == << high_load_start, high_load_alerted, emergency_active, high_load_events,
                worst_state >>

DecisionVars == << cpu_temp, periph_temp, new_speeds, load_states, original_speeds,
                   floor_speed >>

\* the next iteration starts: its locals are not assigned yet
NextIteration ==
    /\ pc' = "get_all_temps"
    /\ all_temps' = NoTemps(config)
    /\ safety_floor_active' = FALSE
    /\ cpu_temp' = None
    /\ periph_temp' = None
    /\ new_speeds' = NoSpeeds
    /\ load_states' = NoStates
    /\ original_speeds' = NoSpeeds
    /\ floor_speed' = NoSpeed
    /\ out' = << >>
    /\ versions' = << config >>

\* an exception leaves the try block of run()
Raise ==
    /\ pc' = "except"
    /\ out' = Append(out, Note("error_main_loop"))

\* all_temps = self.get_all_temps(); if not all_temps: warning, sleep, continue
GetAllTemps(world) ==
    /\ pc = "get_all_temps"
    /\ \E reading \in ReadingsOf(SensorSet(config), world.first) :
          /\ all_temps' = get_all_temps(config, reading)
          /\ IF Keys(get_all_temps(config, reading)) = {}
             THEN /\ out' = Append(out, Note("warning_no_temps"))
                  /\ pc' = "no_temps_sleep"
             ELSE /\ out' = out
                  /\ pc' = "check_safety_floor"
    /\ UNCHANGED << SYSTEMD_WATCHDOG, config, versions, ControllerVars, safety_floor_active, DecisionVars, now >>

\* an iteration without readings that falls back to the normal interval
NoTempsSleepNormalInterval ==
    /\ pc = "no_temps_sleep"
    /\ IF config.polling.normal < 0
       THEN /\ Raise
            /\ UNCHANGED << versions, all_temps, safety_floor_active, DecisionVars, now,
                            poll_interval >>
       ELSE /\ now + config.polling.normal <= MaxTime
            /\ now' = now + config.polling.normal
            /\ poll_interval' = config.polling.normal
            /\ NextIteration
    /\ UNCHANGED << SYSTEMD_WATCHDOG, config, current_speeds, high_load_start,
                    high_load_alerted, emergency_active, safety_override_active, temp_log,
                    high_load_events, worst_state >>

\* time.sleep(self.poll_interval); continue
NoTempsSleep ==
    /\ pc = "no_temps_sleep"
    /\ IF poll_interval < 0
       THEN /\ Raise
            /\ UNCHANGED << versions, all_temps, safety_floor_active, DecisionVars, now >>
       ELSE /\ now + poll_interval <= MaxTime
            /\ now' = now + poll_interval
            /\ NextIteration
    /\ UNCHANGED << SYSTEMD_WATCHDOG, config, ControllerVars >>

\* check_safety_floor without its latch: the alert is written in every iteration in
\* which the floor is active
check_safety_floor_unlatched(cfg, temps, override_active) ==
    LET max_temp == MaxOf({ temps[s] : s \in Keys(temps) })
    IN IF Keys(temps) = {} THEN << FALSE, override_active, << >> >>
       ELSE IF max_temp >= cfg.thresholds.safety_floor
       THEN << TRUE, TRUE,
               << Event("alert_safety_floor", MaxSensor(cfg, temps),
                        cfg.fan_speeds.safety_floor_speed, max_temp, TRUE) >> >>
       ELSE << FALSE, FALSE,
               IF override_active THEN << Note("info_safety_floor_cleared") >> ELSE << >> >>

\* check_safety_floor with a degree of hysteresis: once active, the floor is released
\* only below threshold - 1
check_safety_floor_hysteresis(cfg, temps, override_active) ==
    LET max_temp == MaxOf({ temps[s] : s \in Keys(temps) })
        threshold == cfg.thresholds.safety_floor
    IN IF Keys(temps) = {} THEN << FALSE, override_active, << >> >>
       ELSE IF max_temp >= threshold \/ (override_active /\ max_temp >= threshold - 1)
       THEN << TRUE, TRUE,
               IF ~override_active
               THEN << Event("alert_safety_floor", MaxSensor(cfg, temps),
                             cfg.fan_speeds.safety_floor_speed, max_temp, TRUE) >>
               ELSE << >> >>
       ELSE << FALSE, FALSE,
               IF override_active THEN << Note("info_safety_floor_cleared") >> ELSE << >> >>

\* check_safety_floor: << returned value, safety_override_active, what it writes >>
check_safety_floor(cfg, temps, override_active) ==
    LET max_temp == MaxOf({ temps[s] : s \in Keys(temps) })
        threshold == cfg.thresholds.safety_floor
    IN IF Keys(temps) = {} THEN << FALSE, override_active, << >> >>
       ELSE IF max_temp >= threshold
       THEN << TRUE, TRUE,
               IF ~override_active
               THEN << Event("alert_safety_floor", MaxSensor(cfg, temps),
                             cfg.fan_speeds.safety_floor_speed, max_temp, TRUE) >>
               ELSE << >> >>
       ELSE << FALSE, FALSE,
               IF override_active THEN << Note("info_safety_floor_cleared") >> ELSE << >> >>

\* safety_floor_active = self.check_safety_floor(all_temps)
CheckSafetyFloor ==
    /\ pc = "check_safety_floor"
    /\ LET checked == check_safety_floor(config, all_temps, safety_override_active)
       IN /\ safety_floor_active' = checked[1]
          /\ safety_override_active' = checked[2]
          /\ out' = out \o checked[3]
    /\ pc' = "cpu_zone"
    /\ UNCHANGED << SYSTEMD_WATCHDOG, config, versions, current_speeds, poll_interval, AlertVars, temp_log,
                    all_temps, DecisionVars, now >>

\* the decision of the cpu zone: << speed, load state >>
cpu_decision(cfg, temp) ==
    IF temp # None THEN determine_fan_speed(cfg, temp)
    ELSE << cfg.fan_speeds.error_safe, "error" >>

\* the decision of a peripheral zone that looks at its reading first: a zone without
\* reading is idle, whether or not a static speed is set
peripheral_decision_reading_first(cfg, temp) ==
    IF temp = None THEN << cfg.fan_speeds.idle, "idle" >>
    ELSE IF cfg.static_peripheral.enabled THEN << cfg.static_peripheral.speed, "static" >>
    ELSE determine_fan_speed(cfg, temp)

\* the decision of the peripheral zone: static speed, temperature-based speed, or
\* idle speed when the zone has no reading
peripheral_decision(cfg, temp) ==
    IF cfg.static_peripheral.enabled THEN << cfg.static_peripheral.speed, "static" >>
    ELSE IF temp # None THEN determine_fan_speed(cfg, temp)
    ELSE << cfg.fan_speeds.idle, "idle" >>

\* cpu_temp = self.get_zone_max_temp('cpu_zone') and the decision of the cpu zone
CpuZone(world) ==
    /\ pc = "cpu_zone"
    /\ \E reading \in ReadingsOf(Elements(config.sensors.cpu_zone), world.second) :
          LET temp == get_zone_max_temp(config.sensors.cpu_zone, reading)
              decision == cpu_decision(config, temp)
          IN /\ cpu_temp' = temp
             /\ new_speeds' = [new_speeds EXCEPT !["cpu"] = decision[1]]
             /\ load_states' = [load_states EXCEPT !["cpu"] = decision[2]]
    /\ pc' = "peripheral_zone"
    /\ UNCHANGED << SYSTEMD_WATCHDOG, config, versions, ControllerVars, all_temps, safety_floor_active, periph_temp,
                    original_speeds, floor_speed, out, now >>

\* periph_temp = self.get_zone_max_temp('peripheral_zone') and the decision of the
\* peripheral zone: static speed, temperature-based speed, or idle speed
PeripheralZone(world) ==
    /\ pc = "peripheral_zone"
    /\ \E reading \in ReadingsOf(Elements(config.sensors.peripheral_zone), world.second) :
          LET temp == get_zone_max_temp(config.sensors.peripheral_zone, reading)
              decision == peripheral_decision(config, temp)
          IN /\ periph_temp' = temp
             /\ new_speeds' = [new_speeds EXCEPT !["peripheral"] = decision[1]]
             /\ load_states' = [load_states EXCEPT !["peripheral"] = decision[2]]
    /\ pc' = "apply_safety_floor"
    /\ UNCHANGED << SYSTEMD_WATCHDOG, config, versions, ControllerVars, all_temps, safety_floor_active, cpu_temp,
                    original_speeds, floor_speed, out, now >>

\* the safety floor applied to the zones decided from a temperature only: a static
\* speed is left as it is
ApplySafetyFloorSparingStatic ==
    /\ pc = "apply_safety_floor"
    /\ IF ~safety_floor_active
       THEN /\ pc' = "update_cpu"
            /\ UNCHANGED << new_speeds, original_speeds, floor_speed, out >>
       ELSE LET floor == config.fan_speeds.safety_floor_speed
            IN /\ floor_speed' = floor
               /\ original_speeds' = new_speeds
               /\ IF \A z \in ZoneSet : IsHexText(new_speeds[z]) /\ IsHexText(floor)
                  THEN /\ new_speeds' = [ z \in ZoneSet |->
                                            IF load_states[z] = "static" THEN new_speeds[z]
                                            ELSE apply_speed_floor(new_speeds[z], floor) ]
                       /\ pc' = "update_cpu"
                       /\ out' = out
                  ELSE /\ new_speeds' = new_speeds
                       /\ Raise
    /\ UNCHANGED << SYSTEMD_WATCHDOG, config, versions, ControllerVars, all_temps, safety_floor_active, cpu_temp,
                    periph_temp, load_states, now >>

\* if safety_floor_active: new_speeds[zone] = apply_speed_floor(new_speeds[zone], floor_speed)
\* for each zone; int(_, 16) raises ValueError on a text that is no hexadecimal number
ApplySafetyFloor ==
    /\ pc = "apply_safety_floor"
    /\ IF ~safety_floor_active
       THEN /\ pc' = "update_cpu"
            /\ UNCHANGED << new_speeds, original_speeds, floor_speed, out >>
       ELSE LET floor == config.fan_speeds.safety_floor_speed
            IN /\ floor_speed' = floor
               /\ original_speeds' = new_speeds
               /\ IF \A z \in ZoneSet : IsHexText(new_speeds[z]) /\ IsHexText(floor)
                  THEN /\ new_speeds' = [ z \in ZoneSet |->
                                            apply_speed_floor(new_speeds[z], floor) ]
                       /\ pc' = "update_cpu"
                       /\ out' = out
                  ELSE /\ new_speeds' = new_speeds
                       /\ Raise
    /\ UNCHANGED << SYSTEMD_WATCHDOG, config, versions, ControllerVars, all_temps, safety_floor_active, cpu_temp,
                    periph_temp, load_states, now >>

\* the update of a zone that records the speed whether or not set_fan_speed succeeded
UpdateFanSpeedUnchecked(zone, next_pc, world) ==
    /\ IF new_speeds[zone] # current_speeds[zone]
       THEN \E ok \in world.set_fan_speed :
               /\ out' = Append(out, Event("set_fan_speed", zone, new_speeds[zone], None, ok))
               /\ current_speeds' = [current_speeds EXCEPT ![zone] = new_speeds[zone]]
       ELSE UNCHANGED << out, current_speeds >>
    /\ pc' = next_pc
    /\ UNCHANGED << SYSTEMD_WATCHDOG, config, versions, poll_interval, AlertVars, safety_override_active,
                    temp_log, all_temps, safety_floor_active, DecisionVars, now >>

\* the update of a zone that commands the fans in every iteration
UpdateFanSpeedAlways(zone, next_pc, world) ==
    /\ \E ok \in world.set_fan_speed :
          /\ out' = Append(out, Event("set_fan_speed", zone, new_speeds[zone], None, ok))
          /\ current_speeds' = IF ok
                               THEN [current_speeds EXCEPT ![zone] = new_speeds[zone]]
                               ELSE current_speeds
    /\ pc' = next_pc
    /\ UNCHANGED << SYSTEMD_WATCHDOG, config, versions, poll_interval, AlertVars, safety_override_active,
                    temp_log, all_temps, safety_floor_active, DecisionVars, now >>

\* the telemetry after self.current_speeds[zone] = speed, had log_temp stored the
\* dictionary it is given instead of a copy: every sample shows the new speed
SamplesSharingSpeeds(log, zone, speed) ==
    [ i \in DOMAIN log |-> [log[i] EXCEPT !.fan_speeds[zone] = speed] ]

\* the telemetry after self.current_speeds[zone] = speed: log_temp stored
\* fan_speeds.copy(), so the assignment reaches no sample
SamplesAfterAssignment(log, zone, speed) == log

\* if new_speeds[zone] != self.current_speeds[zone]: if self.set_fan_speed(zone, ...):
\* self.current_speeds[zone] = new_speeds[zone]
UpdateFanSpeed(zone, next_pc, world) ==
    /\ IF new_speeds[zone] # current_speeds[zone]
       THEN \E ok \in world.set_fan_speed :
               /\ out' = Append(out, Event("set_fan_speed", zone, new_speeds[zone], None, ok))
               /\ current_speeds' = IF ok
                                    THEN [current_speeds EXCEPT ![zone] = new_speeds[zone]]
                                    ELSE current_speeds
               /\ temp_log' = IF ok
                              THEN SamplesAfterAssignment(temp_log, zone, new_speeds[zone])
                              ELSE temp_log
       ELSE UNCHANGED << out, current_speeds, temp_log >>
    /\ pc' = next_pc
    /\ UNCHANGED << SYSTEMD_WATCHDOG, config, versions, poll_interval, AlertVars,
                    safety_override_active, all_temps, safety_floor_active, DecisionVars, now >>

UpdateCpu(world) ==
    pc = "update_cpu" /\ UpdateFanSpeed("cpu", "update_peripheral", world)

UpdatePeripheral(world) ==
    pc = "update_peripheral" /\ UpdateFanSpeed("peripheral", "log_temp", world)

\* a bounded queue that refuses the new element when it is full
DequeAppendKeepOldest(queue, x, maxlen) ==
    IF Len(queue) >= maxlen THEN queue ELSE Append(queue, x)

\* deque(maxlen=...).append: the oldest element leaves a full deque
DequeAppend(queue, x, maxlen) ==
    IF maxlen = 0 THEN queue
    ELSE IF Len(queue) >= maxlen THEN Append(Tail(queue), x)
    ELSE Append(queue, x)

\* self.log_temp(all_temps, self.current_speeds, load_states)
LogTemp ==
    /\ pc = "log_temp"
    /\ temp_log' = DequeAppend(temp_log,
                               [ timestamp |-> now, temps |-> all_temps,
                                 fan_speeds |-> current_speeds,
                                 load_states |-> load_states ],
                               config.logging.temp_log_size)
    /\ pc' = "check_alerts"
    /\ UNCHANGED << SYSTEMD_WATCHDOG, config, versions, current_speeds, poll_interval, AlertVars,
                    safety_override_active, all_temps, safety_floor_active,
                    DecisionVars, out, now >>

\* high_load_events = deque(maxlen=100)
MaxEvents == 100

\* a purge that also removes the event whose time is the cutoff time
RECURSIVE PurgeEventsInclusive(_, _)
PurgeEventsInclusive(events, cutoff_time) ==
    IF events # << >> /\ events[1] <= cutoff_time
    THEN PurgeEventsInclusive(Tail(events), cutoff_time)
    ELSE events

\* while self.high_load_events and self.high_load_events[0] < cutoff_time: popleft()
RECURSIVE PurgeEvents(_, _)
PurgeEvents(events, cutoff_time) ==
    IF events # << >> /\ events[1] < cutoff_time
    THEN PurgeEvents(Tail(events), cutoff_time)
    ELSE events

\* the emergency alert without its latch
EmergencyAlertUnlatched(worst, active) ==
    IF worst = "emergency" THEN << TRUE, TRUE >> ELSE << FALSE, FALSE >>

\* the emergency alert raised for a failed reading as for an emergency
EmergencyAlertOnError(worst, active) ==
    IF worst \in {"emergency", "error"}
    THEN << TRUE, ~active >>
    ELSE << FALSE, FALSE >>

\* the "emergency state alert" part of check_alerts: << emergency_active, alert emitted >>
EmergencyAlert(worst, active) ==
    IF worst = "emergency"
    THEN << TRUE, ~active >>
    ELSE << FALSE, FALSE >>

\* the sustained high load alert measuring the duration in the iteration that starts
\* the timer too
SustainedAlertWarningAtEntry(worst, start, alerted, events, current_time, cfg) ==
    IF worst \in {"high", "emergency"}
    THEN LET begun == IF start = None THEN current_time ELSE start
             entries == IF start = None
                        THEN DequeAppend(events, current_time, MaxEvents)
                        ELSE events
         IN IF current_time - begun >= cfg.alerts.sustained_high_load /\ ~alerted
            THEN << begun, TRUE, entries, TRUE >>
            ELSE << begun, alerted, entries, FALSE >>
    ELSE << None, FALSE, events, FALSE >>

\* the sustained high load alert appending to a window without capacity
SustainedAlertUnboundedEvents(worst, start, alerted, events, current_time, cfg) ==
    IF worst \in {"high", "emergency"}
    THEN IF start = None
         THEN << current_time, alerted, Append(events, current_time), FALSE >>
         ELSE IF current_time - start >= cfg.alerts.sustained_high_load /\ ~alerted
         THEN << start, TRUE, events, TRUE >>
         ELSE << start, alerted, events, FALSE >>
    ELSE << None, FALSE, events, FALSE >>

\* the sustained high load alert resetting its timer but not its latch when the load
\* ends
SustainedAlertKeepingLatch(worst, start, alerted, events, current_time, cfg) ==
    IF worst \in {"high", "emergency"}
    THEN IF start = None
         THEN << current_time, alerted, DequeAppend(events, current_time, MaxEvents), FALSE >>
         ELSE IF current_time - start >= cfg.alerts.sustained_high_load /\ ~alerted
         THEN << start, TRUE, events, TRUE >>
         ELSE << start, alerted, events, FALSE >>
    ELSE << None, alerted, events, FALSE >>

\* the sustained high load alert keeping its timer and latch when the load ends
SustainedAlertNoReset(worst, start, alerted, events, current_time, cfg) ==
    IF worst \in {"high", "emergency"}
    THEN IF start = None
         THEN << current_time, alerted, DequeAppend(events, current_time, MaxEvents), FALSE >>
         ELSE IF current_time - start >= cfg.alerts.sustained_high_load /\ ~alerted
         THEN << start, TRUE, events, TRUE >>
         ELSE << start, alerted, events, FALSE >>
    ELSE << start, alerted, events, FALSE >>

\* the sustained high load alert recording an event at every iteration under high load
SustainedAlertCountingTicks(worst, start, alerted, events, current_time, cfg) ==
    IF worst \in {"high", "emergency"}
    THEN IF start = None
         THEN << current_time, alerted, DequeAppend(events, current_time, MaxEvents), FALSE >>
         ELSE IF current_time - start >= cfg.alerts.sustained_high_load /\ ~alerted
         THEN << start, TRUE, DequeAppend(events, current_time, MaxEvents), TRUE >>
         ELSE << start, alerted, DequeAppend(events, current_time, MaxEvents), FALSE >>
    ELSE << None, FALSE, events, FALSE >>

\* the sustained high load alert without its latch
SustainedAlertUnlatched(worst, start, alerted, events, current_time, cfg) ==
    IF worst \in {"high", "emergency"}
    THEN IF start = None
         THEN << current_time, alerted, DequeAppend(events, current_time, MaxEvents), FALSE >>
         ELSE IF current_time - start >= cfg.alerts.sustained_high_load
         THEN << start, TRUE, events, TRUE >>
         ELSE << start, alerted, events, FALSE >>
    ELSE << None, FALSE, events, FALSE >>

\* the sustained high load alert recording the event when the high load ends, not
\* when it starts
SustainedAlertEventAtEnd(worst, start, alerted, events, current_time, cfg) ==
    IF worst \in {"high", "emergency"}
    THEN IF start = None
         THEN << current_time, alerted, events, FALSE >>
         ELSE IF current_time - start >= cfg.alerts.sustained_high_load /\ ~alerted
         THEN << start, TRUE, events, TRUE >>
         ELSE << start, alerted, events, FALSE >>
    ELSE << None, FALSE,
            IF start # None THEN DequeAppend(events, current_time, MaxEvents) ELSE events,
            FALSE >>

\* the "sustained high load alert" part of check_alerts:
\* << high_load_start, high_load_alerted, events, warning emitted >>
SustainedAlert(worst, start, alerted, events, current_time, cfg) ==
    IF worst \in {"high", "emergency"}
    THEN IF start = None
         THEN << current_time, alerted, DequeAppend(events, current_time, MaxEvents), FALSE >>
         ELSE IF current_time - start >= cfg.alerts.sustained_high_load /\ ~alerted
         THEN << start, TRUE, events, TRUE >>
         ELSE << start, alerted, events, FALSE >>
    ELSE << None, FALSE, events, FALSE >>

\* the multiple high load events alert keeping the window after the warning
EventsAlertKeeping(events, current_time, cfg) ==
    LET kept == PurgeEvents(events, current_time - cfg.alerts.high_load_event_window)
    IN << kept, Len(kept) >= cfg.alerts.high_load_event_threshold >>

\* the "multiple high load events" part of check_alerts: << events, warning emitted >>
EventsAlert(events, current_time, cfg) ==
    LET kept == PurgeEvents(events, current_time - cfg.alerts.high_load_event_window)
    IN IF Len(kept) >= cfg.alerts.high_load_event_threshold
       THEN << << >>, TRUE >>
       ELSE << kept, FALSE >>

\* self.check_alerts(load_states)
CheckAlerts ==
    /\ pc = "check_alerts"
    /\ LET worst == worst_of(load_states)
           emergency == EmergencyAlert(worst, emergency_active)
           sustained == SustainedAlert(worst, high_load_start, high_load_alerted,
                                       high_load_events, now, config)
           events == EventsAlert(sustained[3], now, config)
       IN /\ worst_state' = worst
          /\ emergency_active' = emergency[1]
          /\ high_load_start' = sustained[1]
          /\ high_load_alerted' = sustained[2]
          /\ high_load_events' = events[1]
          /\ out' = out
                    \o (IF emergency[2] THEN << Note("alert_emergency") >> ELSE << >>)
                    \o (IF sustained[4] THEN << Note("warning_sustained_high_load") >>
                        ELSE << >>)
                    \o (IF events[2] THEN << Note("warning_high_load_events") >> ELSE << >>)
    /\ pc' = "adjust_polling"
    /\ UNCHANGED << SYSTEMD_WATCHDOG, config, versions, current_speeds, poll_interval, safety_override_active,
                    temp_log, all_temps, safety_floor_active, DecisionVars, now >>

\* adjust_polling leaving the high-load interval only when the load is idle
AdjustPollingSticky ==
    /\ pc = "adjust_polling"
    /\ poll_interval' = IF worst_of(load_states) \in {"high", "emergency"}
                        THEN config.polling.high_load
                        ELSE IF worst_of(load_states) = "moderate"
                        THEN poll_interval
                        ELSE config.polling.normal
    /\ pc' = "notify_watchdog"
    /\ UNCHANGED << SYSTEMD_WATCHDOG, config, versions, current_speeds, AlertVars, safety_override_active, temp_log,
                    all_temps, safety_floor_active, DecisionVars, out, now >>

\* self.adjust_polling(load_states)
AdjustPolling ==
    /\ pc = "adjust_polling"
    /\ poll_interval' = IF worst_of(load_states) \in {"high", "emergency"}
                        THEN config.polling.high_load
                        ELSE config.polling.normal
    /\ pc' = "notify_watchdog"
    /\ UNCHANGED << SYSTEMD_WATCHDOG, config, versions, current_speeds, AlertVars, safety_override_active, temp_log,
                    all_temps, safety_floor_active, DecisionVars, out, now >>

\* a notify_watchdog that does not look at SYSTEMD_WATCHDOG
NotifyWatchdogUnguarded ==
    /\ pc = "notify_watchdog"
    /\ out' = Append(out, Note("watchdog"))
    /\ pc' = "sleep"
    /\ UNCHANGED << SYSTEMD_WATCHDOG, config, versions, ControllerVars, all_temps,
                    safety_floor_active, DecisionVars, now >>

\* self.print_status(...); self.notify_watchdog(): systemd.daemon.notify('WATCHDOG=1')
\* if SYSTEMD_WATCHDOG
NotifyWatchdog ==
    /\ pc = "notify_watchdog"
    /\ out' = IF SYSTEMD_WATCHDOG THEN Append(out, Note("watchdog")) ELSE out
    /\ pc' = "sleep"
    /\ UNCHANGED << SYSTEMD_WATCHDOG, config, versions, ControllerVars, all_temps, safety_floor_active,
                    DecisionVars, now >>

\* a sleep of the normal interval, whatever adjust_polling computed
SleepNormalInterval ==
    /\ pc = "sleep"
    /\ IF config.polling.normal < 0
       THEN /\ Raise
            /\ UNCHANGED << versions, all_temps, safety_floor_active, DecisionVars, now >>
       ELSE /\ now + config.polling.normal <= MaxTime
            /\ now' = now + config.polling.normal
            /\ NextIteration
    /\ UNCHANGED << SYSTEMD_WATCHDOG, config, ControllerVars >>

\* time.sleep(self.poll_interval): ValueError for a negative length
Sleep ==
    /\ pc = "sleep"
    /\ IF poll_interval < 0
       THEN /\ Raise
            /\ UNCHANGED << versions, all_temps, safety_floor_active, DecisionVars, now >>
       ELSE /\ now + poll_interval <= MaxTime
            /\ now' = now + poll_interval
            /\ NextIteration
    /\ UNCHANGED << SYSTEMD_WATCHDOG, config, ControllerVars >>

\* except Exception: log the error, time.sleep(self.config['polling']['normal']);
\* a ValueError raised by this sleep leaves run()
Except ==
    /\ pc = "except"
    /\ IF config.polling.normal < 0
       THEN /\ pc' = "terminated"
            /\ UNCHANGED << versions, all_temps, safety_floor_active, DecisionVars, out, now >>
       ELSE /\ now + config.polling.normal <= MaxTime
            /\ now' = now + config.polling.normal
            /\ NextIteration
    /\ UNCHANGED << SYSTEMD_WATCHDOG, config, ControllerVars >>

(***************************************************************************)
(* RequestHandler.handle_config_update, run by the web thread.  params is  *)
(* the parsed form: a field the request does not carry (or carries with a  *)
(* value int() rejects) raises at its assignment, which leaves the fields  *)
(* assigned before it changed.  The assignments of one section are taken   *)
(* as one step: the configurations the loop can see between two of them    *)
(* are those a request without the later fields leaves.                    *)
(***************************************************************************)
ThresholdFields == << "moderate", "high", "emergency", "safety_floor" >>

FanSpeedFields == << "idle", "moderate", "high", "emergency", "safety_floor_speed" >>

PollingFields == << "normal", "high_load" >>

\* the number of fields assigned before one is missing
RECURSIVE Assigned(_, _)
Assigned(fields, params) ==
    IF fields = << >> \/ Head(fields) \notin DOMAIN params THEN 0
    ELSE 1 + Assigned(Tail(fields), params)

\* the section after the assignments of the fields in order, up to the first that raises
AssignFields(section, fields, params) ==
    [ f \in DOMAIN section |->
        IF \E i \in 1..Assigned(fields, params) : fields[i] = f
        THEN params[f] ELSE section[f] ]

\* section == 'thresholds'
UpdateThresholds(cfg, params) ==
    [cfg EXCEPT !.thresholds = AssignFields(cfg.thresholds, ThresholdFields, params)]

\* the text 'true'
TrueText == << "t", "r", "u", "e" >>

\* section == 'fan_speeds': the five speeds, then the static peripheral speed and flag
UpdateFanSpeeds(cfg, params) ==
    LET speeds == AssignFields(cfg.fan_speeds, FanSpeedFields, params)
        all_assigned == Assigned(FanSpeedFields, params) = Len(FanSpeedFields)
        static == IF ~all_assigned \/ "static_peripheral" \notin DOMAIN params
                  THEN cfg.static_peripheral
                  ELSE [ speed |-> params["static_peripheral"],
                         enabled |-> /\ "static_peripheral_enabled" \in DOMAIN params
                                     /\ params["static_peripheral_enabled"] = TrueText ]
    IN [cfg EXCEPT !.fan_speeds = speeds, !.static_peripheral = static]

\* section == 'polling'
UpdatePolling(cfg, params) ==
    [cfg EXCEPT !.polling = AssignFields(cfg.polling, PollingFields, params)]

LoopVars == << SYSTEMD_WATCHDOG, ControllerVars, pc, all_temps, safety_floor_active, DecisionVars, out, now >>

\* the web thread handles one request
Post(cfg) ==
    /\ Len(versions) <= MaxRequests
    /\ config' = cfg
    /\ versions' = Append(versions, cfg)
    /\ UNCHANGED LoopVars

PostThresholds(forms) == \E params \in forms : Post(UpdateThresholds(config, params))

PostFanSpeeds(forms) == \E params \in forms : Post(UpdateFanSpeeds(config, params))

PostPolling(forms) == \E params \in forms : Post(UpdatePolling(config, params))

\* the first k fields of a form
Form(fields, values, k) == [ f \in { fields[i] : i \in 1..k } |-> values[f] ]

(***************************************************************************)
(* The loop thread.                                                        *)
(***************************************************************************)
Iteration(world) ==
    \/ GetAllTemps(world)
    \/ NoTempsSleep
    \/ CheckSafetyFloor
    \/ CpuZone(world)
    \/ PeripheralZone(world)
    \/ ApplySafetyFloor
    \/ UpdateCpu(world)
    \/ UpdatePeripheral(world)
    \/ LogTemp
    \/ CheckAlerts
    \/ AdjustPolling
    \/ NotifyWatchdog
    \/ Sleep
    \/ Except

(***************************************************************************)
(* Spec: the decisions of an iteration.  Every sensor is read twice in an  *)
(* iteration (get_all_temps, then get_zone_max_temp) and each read answers *)
(* on its own; ipmitool raw succeeds or fails.  The configuration file     *)
(* sets both polling intervals to 0, so the clock stands still and the     *)
(* iterations go on for ever, and a telemetry ring of size 0, which the    *)
(* loop only writes.  The web interface is disabled.                       *)
(***************************************************************************)
ZeroPolling ==
    [BaseConfig EXCEPT !.polling = [ normal |-> 0, high_load |-> 0 ],
                       !.logging = [ temp_log_size |-> 0 ]]

StartConfigs ==
    { ZeroPolling,
      [ZeroPolling EXCEPT !.static_peripheral.enabled = TRUE],
      [ZeroPolling EXCEPT !.fan_speeds.safety_floor_speed = << "z" >>] }

World ==
    [ first |-> [ s \in SensorSet(BaseConfig) |-> {None, 0, 4} ],
      second |-> [ s \in SensorSet(BaseConfig) |-> {None, 0, 2, 4} ],
      set_fan_speed |-> BOOLEAN ]

Init == \E cfg \in StartConfigs : ControllerInit(cfg)

Next == Iteration(World)

Spec == Init /\ [][Next]_vars

(***************************************************************************)
(* SpecWeb: the loop with the web interface enabled.  The web thread       *)
(* handles configuration requests between any two steps of the loop; the   *)
(* polling intervals are 2 and 1 and the clock runs up to MaxTime.         *)
(***************************************************************************)
WebConfig == [BaseConfig EXCEPT !.logging = [ temp_log_size |-> 0 ]]

WebWorld ==
    [ first |-> [ s \in SensorSet(BaseConfig) |-> IF s = "CPU" THEN {None, 2, 4} ELSE {None} ],
      second |-> [ s \in SensorSet(BaseConfig) |-> {2} ],
      set_fan_speed |-> {TRUE} ]

\* the forms the web thread receives: all the fields of a section, or only the first
RaisedThresholds == [ moderate |-> 1, high |-> 3, emergency |-> 4, safety_floor |-> 3 ]

ThresholdForms ==
    { Form(ThresholdFields, BaseConfig.thresholds, 4),
      Form(ThresholdFields, RaisedThresholds, 4),
      Form(ThresholdFields, RaisedThresholds, 2) }

FormFields == FanSpeedFields \o << "static_peripheral", "static_peripheral_enabled" >>

FormSpeeds ==
    [ idle |-> BaseConfig.fan_speeds.idle, moderate |-> BaseConfig.fan_speeds.moderate,
      high |-> BaseConfig.fan_speeds.high, emergency |-> BaseConfig.fan_speeds.emergency,
      safety_floor_speed |-> BaseConfig.fan_speeds.safety_floor_speed,
      static_peripheral |-> BaseConfig.static_peripheral.speed,
      static_peripheral_enabled |-> TrueText ]

FanSpeedForms ==
    { Form(FormFields, FormSpeeds, 6),
      Form(FormFields, [FormSpeeds EXCEPT !.safety_floor_speed = << "z" >>], 6) }

PollingForms ==
    { Form(PollingFields, BaseConfig.polling, 2),
      Form(PollingFields, [ normal |-> 2, high_load |-> -1 ], 2),
      Form(PollingFields, [ normal |-> -1, high_load |-> 1 ], 1) }

InitWeb == ControllerInit(WebConfig)

NextWeb ==
    \/ Iteration(WebWorld)
    \/ PostThresholds(ThresholdForms)
    \/ PostFanSpeeds(FanSpeedForms)
    \/ PostPolling(PollingForms)

SpecWeb == InitWeb /\ [][NextWeb]_vars

(***************************************************************************)
(* SpecFunctions: get_zone_max_temp and determine_fan_speed as functions   *)
(* of what they are given.  The configuration file gives any thresholds    *)
(* (in no particular order) and zones of no, one or two sensors; all_temps *)
(* holds what each sensor answers; each zone is resolved, then decided.    *)
(***************************************************************************)
SensorNames == {"CPU", "PCH"}

ZoneSensors ==
    [ cpu_zone : { << >>, << "CPU" >>, << "CPU", "PCH" >>, << "PCH", "CPU" >> },
      peripheral_zone : { << >>, << "PCH" >> } ]

ThresholdSets ==
    [ moderate : Temperatures, high : Temperatures, emergency : Temperatures,
      safety_floor : {4} ]

FunctionConfigs ==
    { [ZeroPolling EXCEPT !.sensors = sensors, !.thresholds = thresholds] :
        sensors \in ZoneSensors, thresholds \in ThresholdSets }

\* cpu_temp = self.get_zone_max_temp('cpu_zone'), periph_temp = ...('peripheral_zone')
GetZoneMaxTemp(zone, from, to) ==
    /\ pc = from
    /\ IF zone = "cpu"
       THEN /\ cpu_temp' = get_zone_max_temp(config.sensors.cpu_zone, all_temps)
            /\ periph_temp' = periph_temp
       ELSE /\ periph_temp' = get_zone_max_temp(config.sensors.peripheral_zone, all_temps)
            /\ cpu_temp' = cpu_temp
    /\ pc' = to
    /\ UNCHANGED << SYSTEMD_WATCHDOG, config, versions, ControllerVars, all_temps, safety_floor_active,
                    new_speeds, load_states, original_speeds, floor_speed, out, now >>

\* new_speeds[zone], load_states[zone] = self.determine_fan_speed(temp)
DetermineFanSpeed(zone, from, to) ==
    /\ pc = from
    /\ LET decision == determine_fan_speed(config,
                                           IF zone = "cpu" THEN cpu_temp ELSE periph_temp)
       IN /\ new_speeds' = [new_speeds EXCEPT ![zone] = decision[1]]
          /\ load_states' = [load_states EXCEPT ![zone] = decision[2]]
    /\ pc' = to
    /\ UNCHANGED << SYSTEMD_WATCHDOG, config, versions, ControllerVars, all_temps, safety_floor_active,
                    cpu_temp, periph_temp, original_speeds, floor_speed, out, now >>

InitFunctions ==
    \E cfg \in FunctionConfigs, answers \in [SensorNames -> Readings] :
        /\ SYSTEMD_WATCHDOG = TRUE
        /\ Constructed(cfg)
        /\ pc = "resolve_cpu"
        /\ all_temps = answers
        /\ safety_floor_active = FALSE
        /\ cpu_temp = None
        /\ periph_temp = None
        /\ new_speeds = NoSpeeds
        /\ load_states = NoStates
        /\ original_speeds = NoSpeeds
        /\ floor_speed = NoSpeed
        /\ out = << >>

NextFunctions ==
    \/ GetZoneMaxTemp("cpu", "resolve_cpu", "resolve_peripheral")
    \/ GetZoneMaxTemp("peripheral", "resolve_peripheral", "decide_cpu")
    \/ DetermineFanSpeed("cpu", "decide_cpu", "decide_peripheral")
    \/ DetermineFanSpeed("peripheral", "decide_peripheral", "returned")

SpecFunctions == InitFunctions /\ [][NextFunctions]_vars

(***************************************************************************)
(* SpecAlerts: the alerts, the polling interval and the telemetry over     *)
(* several iterations.  The polling intervals are 2 (normal) and 1 (high   *)
(* load), the sustained load threshold 2, the event window 3 wide with a   *)
(* threshold of 2 events, the telemetry ring holds one sample, and the     *)
(* clock runs up to MaxTime.  The cpu sensor answers the first read with   *)
(* nothing, 0 or 4 and the second with nothing, 0, 1, 2 or 3; the          *)
(* peripheral sensor answers only the second, with 0 or 2.  One of the     *)
(* configuration files has a safety floor speed that is no hexadecimal     *)
(* number.  The web interface is disabled.                                 *)
(***************************************************************************)
AlertsConfig == [BaseConfig EXCEPT !.logging = [ temp_log_size |-> 1 ]]

AlertsConfigs ==
    { AlertsConfig, [AlertsConfig EXCEPT !.fan_speeds.safety_floor_speed = << "z" >>] }

AlertsWorld ==
    [ first |-> [ s \in SensorSet(BaseConfig) |->
                    IF s = "CPU" THEN {None, 0, 4} ELSE {None} ],
      second |-> [ s \in SensorSet(BaseConfig) |->
                     IF s = "CPU" THEN {None, 0, 1, 2, 3} ELSE {0, 2} ],
      set_fan_speed |-> {TRUE} ]

InitAlerts == \E cfg \in AlertsConfigs : ControllerInit(cfg)

NextAlerts == Iteration(AlertsWorld)

SpecAlerts == InitAlerts /\ [][NextAlerts]_vars

(***************************************************************************)
(* SpecAlertsFair: SpecAlerts with one more configuration file, whose      *)
(* polling intervals and sustained load threshold are 0 (the clock stands  *)
(* still and the iterations go on for ever), and with the loop thread      *)
(* always running: it is the only thread and no step of it blocks.         *)
(***************************************************************************)
SteadyConfig ==
    [ZeroPolling EXCEPT !.alerts.sustained_high_load = 0]

InitAlertsFair == \E cfg \in AlertsConfigs \cup {SteadyConfig} : ControllerInit(cfg)

SpecAlertsFair == InitAlertsFair /\ [][NextAlerts]_vars /\ WF_vars(NextAlerts)

(***************************************************************************)
(* SpecTies: SpecAlerts with one more configuration file, in which the     *)
(* static speed of the peripheral zone is enabled.                         *)
(***************************************************************************)
StaticConfig == [AlertsConfig EXCEPT !.static_peripheral.enabled = TRUE]

InitTies == \E cfg \in AlertsConfigs \cup {StaticConfig} : ControllerInit(cfg)

SpecTies == InitTies /\ [][NextAlerts]_vars

(***************************************************************************)
(* SpecEvents: the window of high load events at its capacity.  The clock  *)
(* stands still (polling intervals of 0), so that no event ever leaves the *)
(* window by age and the loop runs any number of iterations; the event     *)
(* threshold is 2, or one more than the window can hold.  The cpu sensor   *)
(* answers the first read with nothing, 0 or 4 and the second with 0 or 2  *)
(* (idle or high).                                                         *)
(***************************************************************************)
EventsConfigs ==
    { [ZeroPolling EXCEPT !.alerts.high_load_event_threshold = 2],
      [ZeroPolling EXCEPT !.alerts.high_load_event_threshold = MaxEvents + 1],
      [ZeroPolling EXCEPT !.alerts.high_load_event_threshold = MaxEvents + 1,
                          !.fan_speeds.safety_floor_speed = << "z" >>] }

EventsWorld ==
    [ first |-> [ s \in SensorSet(BaseConfig) |->
                    IF s = "CPU" THEN {None, 0, 4} ELSE {None} ],
      second |-> [ s \in SensorSet(BaseConfig) |->
                     IF s = "CPU" THEN {0, 2} ELSE {0} ],
      set_fan_speed |-> {TRUE} ]

InitEvents == \E cfg \in EventsConfigs : ControllerInit(cfg)

NextEvents == Iteration(EventsWorld)

SpecEvents == InitEvents /\ [][NextEvents]_vars

(***************************************************************************)
(* SpecRun: the program from its start.  FanController.__init__ loads the  *)
(* configuration file, which is missing, no valid YAML, or gives config;   *)
(* the loop then runs with a telemetry ring of 0 to MaxLogSize samples, on *)
(* a host with or without the systemd module.  Two of the configurations   *)
(* carry a negative polling interval.  The cpu sensor answers the first    *)
(* read with nothing, 3 or 4 (the safety floor threshold and one degree    *)
(* below it) and the second with 0 or 3.                                   *)
(***************************************************************************)
MaxLogSize == 2

RunConfigs ==
    { [BaseConfig EXCEPT !.logging = [ temp_log_size |-> size ]] : size \in 0..MaxLogSize }
    \cup { [BaseConfig EXCEPT !.polling.high_load = -1],
           [BaseConfig EXCEPT !.polling.normal = -1] }

RunWorld ==
    [ first |-> [ s \in SensorSet(BaseConfig) |->
                    IF s = "CPU" THEN {None, 3, 4} ELSE {None} ],
      second |-> [ s \in SensorSet(BaseConfig) |->
                     IF s = "CPU" THEN {0, 3} ELSE {0} ],
      set_fan_speed |-> {TRUE},
      config_file |-> {"missing", "invalid", "valid"} ]

\* self.load_config(config_path): sys.exit(1) when the file is missing or is no valid
\* YAML; the rest of __init__ sets what Constructed describes, main() calls run()
LoadConfig(world) ==
    /\ pc = "load_config"
    /\ \E file \in world.config_file :
          IF file = "valid"
          THEN /\ pc' = "get_all_temps"
               /\ out' = out
          ELSE /\ pc' = "exit_1"
               /\ out' = Append(out, Note("error_config"))
    /\ UNCHANGED << SYSTEMD_WATCHDOG, config, versions, ControllerVars, all_temps,
                    safety_floor_active, DecisionVars, now >>

InitRun ==
    \E cfg \in RunConfigs :
        /\ SYSTEMD_WATCHDOG \in BOOLEAN
        /\ Constructed(cfg)
        /\ pc = "load_config"
        /\ LocalsUnset

NextRun ==
    \/ LoadConfig(RunWorld)
    \/ Iteration(RunWorld)

SpecRun == InitRun /\ [][NextRun]_vars

(***************************************************************************)
(* Properties of the decisions of an iteration.                            *)
(***************************************************************************)
\* the positions of the loop at which new_speeds holds the final speeds of the iteration
Enforced == { "update_cpu", "update_peripheral", "log_temp", "check_alerts",
              "adjust_polling", "notify_watchdog", "sleep" }

\* C1: in an iteration in which the safety floor is active, the final speed of every
\* zone is, as a number, the maximum of the speed decided for the zone and of the
\* safety floor speed, hence at least each of them.
C1_FloorIsNumericMax ==
    (pc \in Enforced /\ safety_floor_active) =>
        \A z \in ZoneSet :
            /\ IsHexText(new_speeds[z])
            /\ HexValue(new_speeds[z])
                 = Max(HexValue(original_speeds[z]), HexValue(floor_speed))
            /\ HexValue(new_speeds[z]) >= HexValue(floor_speed)
            /\ HexValue(new_speeds[z]) >= HexValue(original_speeds[z])

\* C1 happens: the floor is active, one zone was decided below the floor speed (a text
\* that is greater as a string) and is raised to it, the other was decided above it
C1_Witness ==
    /\ pc = "update_cpu"
    /\ safety_floor_active
    /\ original_speeds["peripheral"] = << "0", "x", "8" >>
    /\ new_speeds["peripheral"] = Speed("3", "c")
    /\ HexValue(original_speeds["cpu"]) > HexValue(floor_speed)
    /\ new_speeds["cpu"] = original_speeds["cpu"]

\* the temperature resolved for each zone in this iteration
ZoneTemps == { cpu_temp, periph_temp } \ {None}

\* C2: the safety floor is active in an iteration if and only if one of the
\* temperatures resolved for the zones in that iteration is at or above the
\* safety_floor threshold.
C2_FloorDecidedOnZoneTemps ==
    pc = "apply_safety_floor" =>
        (safety_floor_active <=> \E t \in ZoneTemps : t >= config.thresholds.safety_floor)

\* C3: a zone whose sensors all fail to read and that is not under the static
\* override gets the error_safe speed and the state "error".
C3_UnreadableZoneGetsErrorSafe ==
    pc = "apply_safety_floor" =>
        /\ cpu_temp = None =>
              /\ new_speeds["cpu"] = config.fan_speeds.error_safe
              /\ load_states["cpu"] = "error"
        /\ (periph_temp = None /\ ~config.static_peripheral.enabled) =>
              /\ new_speeds["peripheral"] = config.fan_speeds.error_safe
              /\ load_states["peripheral"] = "error"

\* C10: with the static override enabled and the safety floor active, the final
\* speed of the peripheral zone is the maximum of the static speed and of the safety
\* floor speed.
C10_FloorWinsOverStatic ==
    (pc \in Enforced /\ safety_floor_active /\ load_states["peripheral"] = "static") =>
        /\ original_speeds["peripheral"] = config.static_peripheral.speed
        /\ HexValue(new_speeds["peripheral"])
             = Max(HexValue(config.static_peripheral.speed),
                   HexValue(config.fan_speeds.safety_floor_speed))

\* C10 happens: a static speed below the floor speed is raised to the floor speed
C10_Witness ==
    /\ pc = "update_peripheral"
    /\ safety_floor_active
    /\ load_states["peripheral"] = "static"
    /\ HexValue(config.static_peripheral.speed) < HexValue(config.fan_speeds.safety_floor_speed)
    /\ HexValue(new_speeds["peripheral"]) = HexValue(config.fan_speeds.safety_floor_speed)

(***************************************************************************)
(* Properties of the latches and of the actuation.                         *)
(***************************************************************************)
\* what a step of the loop appends to out
Written == SubSeq(out', Len(out) + 1, Len(out'))

\* the loop takes the step that leads from one position to the next
Step(from, to) == pc = from /\ pc' = to

\* C4: check_alerts emits the emergency alert exactly when the worst state is
\* "emergency" and the worst state of the previous evaluated iteration was not: once
\* per run of iterations in "emergency".  The latch is set exactly while the worst
\* state is "emergency" and is cleared without an alert; no other step emits the
\* alert or changes the latch.
C4_EmergencyAlertOncePerRun ==
    [][ IF Step("check_alerts", "adjust_polling")
        THEN /\ worst_state' = worst_of(load_states)
             /\ CountOf("alert_emergency")' - CountOf("alert_emergency")
                  = (IF worst_state' = "emergency" /\ worst_state # "emergency"
                     THEN 1 ELSE 0)
             /\ emergency_active' = (worst_state' = "emergency")
        ELSE /\ emergency_active' = emergency_active
             /\ worst_state' = worst_state
             /\ CountOf("alert_emergency")' <= CountOf("alert_emergency") ]_vars

\* C4 happens: an iteration in "emergency" that follows one and emits no alert
C4_Witness ==
    /\ pc = "adjust_polling"
    /\ worst_state = "emergency"
    /\ emergency_active
    /\ ~Emitted("alert_emergency")

Issued(z) == { i \in Commands(z)' : i > Len(out) }

\* C7: a failed actuation leaves the last applied speed of the zone as it was, a
\* successful one makes it the computed speed; a zone is commanded at most once in
\* an iteration, and is commanded again in whichever iteration finds its computed
\* speed different from the last applied one.
C7_FailedActuationKeepsLastApplied ==
    /\ [][ \A z \in ZoneSet :
             /\ \A i \in Issued(z) :
                   current_speeds'[z] = IF out'[i].ok THEN new_speeds[z] ELSE current_speeds[z]
             /\ ( /\ Step("update_cpu", "update_peripheral") \/ Step("update_peripheral", "log_temp")
                  /\ z = (IF pc = "update_cpu" THEN "cpu" ELSE "peripheral")
                  /\ new_speeds[z] # current_speeds[z] ) => Issued(z) # {} ]_vars
    /\ [](\A z \in ZoneSet : Cardinality(Commands(z)) <= 1)

\* C7 happens: the command of the cpu zone failed and its last applied speed is an
\* earlier one
C7_Witness ==
    /\ pc = "update_peripheral"
    /\ \E i \in Commands("cpu") : ~out[i].ok
    /\ current_speeds["cpu"] # NoSpeed
    /\ current_speeds["cpu"] # new_speeds["cpu"]

\* C8: a zone is sent a command, for its computed speed, exactly in the update step
\* of an iteration that finds the computed speed different from the last applied
\* one; otherwise nothing is sent and the last applied speed stays; at most one
\* command per zone and iteration.
C8_CommandIffSpeedChanged ==
    /\ [][ \A z \in ZoneSet :
             LET updating == /\ Step("update_cpu", "update_peripheral")
                                   \/ Step("update_peripheral", "log_temp")
                             /\ z = (IF pc = "update_cpu" THEN "cpu" ELSE "peripheral")
             IN IF updating /\ new_speeds[z] # current_speeds[z]
                THEN /\ Cardinality(Issued(z)) = 1
                     /\ \A i \in Issued(z) : out'[i].speed = new_speeds[z]
                ELSE /\ Issued(z) = {}
                     /\ current_speeds'[z] = current_speeds[z] ]_vars
    /\ [](\A z \in ZoneSet : Cardinality(Commands(z)) <= 1)

\* C8 happens: the cpu zone's speed is the one last applied and nothing is sent to
\* it, while the peripheral zone is commanded
C8_Witness ==
    /\ pc = "log_temp"
    /\ Commands("cpu") = {}
    /\ current_speeds["cpu"] = new_speeds["cpu"]
    /\ Commands("peripheral") # {}

(***************************************************************************)
(* Properties of the loop beside the web thread.                           *)
(***************************************************************************)
\* C6: the decisions of an iteration (the safety floor, the speed and state of each
\* zone) are those that one value of the configuration gives, among the values the
\* configuration had during the iteration.
C6_IterationSeesOneConfiguration ==
    pc = "apply_safety_floor" =>
        \E cfg \in Elements(versions) :
            /\ safety_floor_active = check_safety_floor(cfg, all_temps, FALSE)[1]
            /\ << new_speeds["cpu"], load_states["cpu"] >> = cpu_decision(cfg, cpu_temp)
            /\ << new_speeds["peripheral"], load_states["peripheral"] >>
                 = peripheral_decision(cfg, periph_temp)

\* C9: no failure of an iteration ends the loop.
C9_LoopNeverTerminates == pc # "terminated"

(***************************************************************************)
(* Properties of get_zone_max_temp and determine_fan_speed.                *)
(***************************************************************************)
\* the band of the claim for a temperature: the first threshold, from emergency
\* down, that the temperature reaches
BandOf(temp) ==
    IF temp = None THEN << config.fan_speeds.error_safe, "error" >>
    ELSE IF temp >= config.thresholds.emergency
    THEN << config.fan_speeds.emergency, "emergency" >>
    ELSE IF temp < config.thresholds.emergency /\ temp >= config.thresholds.high
    THEN << config.fan_speeds.high, "high" >>
    ELSE IF temp < config.thresholds.high /\ temp >= config.thresholds.moderate
    THEN << config.fan_speeds.moderate, "moderate" >>
    ELSE << config.fan_speeds.idle, "idle" >>

\* C11: determine_fan_speed returns the emergency speed and state when the
\* temperature is at or above the emergency threshold, else the high ones when it is
\* at or above the high threshold, else the moderate ones when it is at or above the
\* moderate threshold, else the idle ones; error_safe and "error" for no temperature;
\* a temperature equal to a threshold is in the higher band.
C11_BandsInclusiveAtLowerBound ==
    /\ pc \in {"decide_peripheral", "returned"} =>
          /\ << new_speeds["cpu"], load_states["cpu"] >> = BandOf(cpu_temp)
          /\ \A band \in {"moderate", "high", "emergency"} :
                (cpu_temp = config.thresholds[band] /\ cpu_temp # None) =>
                   load_states["cpu"] \in { b \in {"moderate", "high", "emergency"} :
                                              state_priority(b) >= state_priority(band) }
    /\ pc = "returned" =>
          << new_speeds["peripheral"], load_states["peripheral"] >> = BandOf(periph_temp)

\* C11 happens: a temperature equal to the high threshold, between the two others,
\* is decided "high", and a zone with no temperature "error"
C11_Witness ==
    /\ pc = "returned"
    /\ config.thresholds.moderate < config.thresholds.high
    /\ config.thresholds.high < config.thresholds.emergency
    /\ cpu_temp = config.thresholds.high
    /\ load_states["cpu"] = "high"
    /\ new_speeds["cpu"] = config.fan_speeds.high
    /\ periph_temp = None
    /\ load_states["peripheral"] = "error"

\* Idle < Moderate < High < Emergency
BandRank(state) ==
    CASE state = "idle" -> 0
      [] state = "moderate" -> 1
      [] state = "high" -> 2
      [] state = "emergency" -> 3

\* C12: for two temperatures t1 <= t2 and any thresholds, ordered or not, the band
\* of t1 is at most the band of t2, and one temperature has one band and speed.
C12_BandMonotonic ==
    (pc = "returned" /\ cpu_temp # None /\ periph_temp # None) =>
        /\ cpu_temp <= periph_temp =>
              BandRank(load_states["cpu"]) <= BandRank(load_states["peripheral"])
        /\ periph_temp <= cpu_temp =>
              BandRank(load_states["peripheral"]) <= BandRank(load_states["cpu"])
        /\ cpu_temp = periph_temp =>
              /\ load_states["cpu"] = load_states["peripheral"]
              /\ new_speeds["cpu"] = new_speeds["peripheral"]

\* C12 happens: thresholds out of order (emergency below high), a lower temperature
\* in a lower band than a higher one
C12_Witness ==
    /\ pc = "returned"
    /\ config.thresholds.emergency < config.thresholds.high
    /\ config.thresholds.moderate < config.thresholds.emergency
    /\ cpu_temp # None
    /\ cpu_temp < periph_temp
    /\ load_states["cpu"] = "moderate"
    /\ load_states["peripheral"] = "emergency"
    /\ periph_temp >= config.thresholds.high

\* the readings of the sensors of a zone that were read
Readable(sensors) == { all_temps[sensors[i]] : i \in 1..Len(sensors) } \ {None}

\* temp is the greatest of the readable sensors, or None when there is none
Resolved(temp, sensors) ==
    IF Readable(sensors) = {} THEN temp = None
    ELSE /\ temp \in Readable(sensors)
         /\ \A r \in Readable(sensors) : r <= temp

\* C20: get_zone_max_temp returns the maximum of the readings of the sensors of the
\* zone that were read, and None exactly when the zone has no sensor or no read
\* succeeded.
C20_ZoneMaxOfReadableSensors ==
    /\ pc # "resolve_cpu" => Resolved(cpu_temp, config.sensors.cpu_zone)
    /\ pc \notin {"resolve_cpu", "resolve_peripheral"} =>
          Resolved(periph_temp, config.sensors.peripheral_zone)

\* C20 happens: the first sensor of a zone of two fails and the zone has the reading
\* of the second; the other zone has no sensor and no temperature
C20_Witness ==
    /\ pc = "decide_cpu"
    /\ config.sensors.cpu_zone = << "CPU", "PCH" >>
    /\ all_temps["CPU"] = None
    /\ all_temps["PCH"] = 3
    /\ cpu_temp = 3
    /\ config.sensors.peripheral_zone = << >>
    /\ periph_temp = None

(***************************************************************************)
(* Properties of check_alerts and adjust_polling.                          *)
(***************************************************************************)
\* C19: an iteration in which a zone is in state "error" and none in state
\* "emergency" emits no emergency alert and leaves the emergency latch cleared.
C19_ErrorAloneNoEmergencyAlert ==
    [][ ( /\ Step("check_alerts", "adjust_polling")
          /\ \E z \in ZoneSet : load_states[z] = "error"
          /\ \A z \in ZoneSet : load_states[z] # "emergency" ) =>
            /\ CountOf("alert_emergency")' = CountOf("alert_emergency")
            /\ emergency_active' = FALSE ]_vars

\* C19 happens: the cpu zone could not be read, the peripheral zone is under high
\* load, and check_alerts has emitted no emergency alert
C19_Witness ==
    /\ pc = "adjust_polling"
    /\ load_states["cpu"] = "error"
    /\ load_states["peripheral"] = "high"
    /\ worst_state = "error"
    /\ ~emergency_active
    /\ ~Emitted("alert_emergency")

\* the states of high load
HighLoad == {"high", "emergency"}

\* the step of an iteration that evaluates the alerts
Checking == Step("check_alerts", "adjust_polling")

\* the messages of one kind a step writes
Added(kind) == CountOf(kind)' - CountOf(kind)

\* C13: an evaluated iteration whose worst state is outside {high, emergency} resets
\* the start time and the latch of the sustained load; the first iteration of high
\* load after it takes its own time as the start and warns of nothing, and a warning
\* measures the time from that start.  No other step changes the two.
C13_SustainedTimerResets ==
    [][ IF Checking
        THEN /\ worst_of(load_states) \notin HighLoad =>
                   /\ high_load_start' = None
                   /\ high_load_alerted' = FALSE
                   /\ Added("warning_sustained_high_load") = 0
             /\ (worst_of(load_states) \in HighLoad /\ worst_state \notin HighLoad) =>
                   /\ high_load_start' = now
                   /\ high_load_alerted' = FALSE
                   /\ Added("warning_sustained_high_load") = 0
             /\ Added("warning_sustained_high_load") > 0 =>
                   /\ high_load_start' = high_load_start
                   /\ high_load_start # None
                   /\ now - high_load_start >= config.alerts.sustained_high_load
        ELSE /\ high_load_start' = high_load_start
             /\ high_load_alerted' = high_load_alerted ]_vars

\* C13 happens: the load is high again after an interruption (the earlier entry is
\* still in the event window, which warns) and the timer starts at this iteration
C13_Witness ==
    /\ pc = "adjust_polling"
    /\ worst_state \in HighLoad
    /\ now >= 3
    /\ high_load_start = now
    /\ ~high_load_alerted
    /\ Emitted("warning_high_load_events")

\* the positions of the loop at which the last sample of temp_log is the one of the
\* previous evaluated iteration
BeforeLog == { "get_all_temps", "no_temps_sleep", "check_safety_floor", "cpu_zone",
               "peripheral_zone", "apply_safety_floor", "update_cpu",
               "update_peripheral", "log_temp" }

EventWindow ==
    LET entered == worst_of(load_states) \in HighLoad /\ worst_state \notin HighLoad
        entries == IF entered THEN Append(high_load_events, now) ELSE high_load_events
        Recent(t) == t >= now - config.alerts.high_load_event_window
    IN SelectSeq(entries, Recent)

\* C15: when the entries of high load in the window, after the purge, number at
\* least the threshold, the iteration writes one warning and empties the window;
\* otherwise it writes none and keeps the purged window.  With a threshold above 1,
\* a single entry into an empty window writes no warning.  No other step writes
\* the warning or changes the window.
C15_EventWindowWarnsAndClears ==
    [][ IF Checking
        THEN /\ IF Len(EventWindow) >= config.alerts.high_load_event_threshold
                THEN /\ Added("warning_high_load_events") = 1
                     /\ high_load_events' = << >>
                ELSE /\ Added("warning_high_load_events") = 0
                     /\ high_load_events' = EventWindow
             /\ ( /\ high_load_events = << >>
                  /\ config.alerts.high_load_event_threshold > 1 ) =>
                   Added("warning_high_load_events") = 0
        ELSE /\ high_load_events' = high_load_events
             /\ Added("warning_high_load_events") <= 0 ]_vars

\* C15 happens: the second entry within the window warns and empties the window
C15_Witness ==
    /\ pc = "adjust_polling"
    /\ high_load_start = now
    /\ now = 3
    /\ CountOf("warning_high_load_events") = 1
    /\ high_load_events = << >>

\* C16: adjust_polling sets the interval to the high-load one when the worst state
\* of the iteration is "high" or "emergency" and to the normal one otherwise,
\* whatever the interval was; no other step changes the interval.
C16_PollIntervalFollowsWorstState ==
    [][ IF Step("adjust_polling", "notify_watchdog")
        THEN /\ worst_state = worst_of(load_states)
             /\ poll_interval' = IF worst_state \in HighLoad
                                 THEN config.polling.high_load
                                 ELSE config.polling.normal
        ELSE poll_interval' = poll_interval ]_vars

\* C16 happens: an iteration with one zone idle and the other under high load sets
\* the high-load interval, which differs from the normal one
C16_Witness ==
    /\ pc = "notify_watchdog"
    /\ load_states["cpu"] = "idle"
    /\ load_states["peripheral"] = "high"
    /\ poll_interval = config.polling.high_load
    /\ config.polling.high_load # config.polling.normal
    /\ now > 0

\* C18: between two iterations, each latch is what the last sample of the telemetry
\* gives: the safety floor latch is set exactly when a temperature of the sample is
\* at or above the safety floor, the emergency latch exactly when the worst state of
\* the sample is "emergency", the sustained load timer runs exactly when it is
\* "high" or "emergency"; with no sample yet, no latch is set.
C18_LatchesMatchLastSample ==
    pc = "get_all_temps" =>
        IF temp_log = << >>
        THEN /\ ~safety_override_active
             /\ ~emergency_active
             /\ high_load_start = None
             /\ ~high_load_alerted
        ELSE LET sample == temp_log[Len(temp_log)]
                 worst == worst_of(sample.load_states)
             IN /\ safety_override_active
                     = (\E sensor \in Keys(sample.temps) :
                           sample.temps[sensor] >= config.thresholds.safety_floor)
                /\ emergency_active = (worst = "emergency")
                /\ (high_load_start # None) = (worst \in HighLoad)

C17_EmergencyWithEvents ==
    /\ pc = "adjust_polling"
    /\ Emitted("alert_emergency")
    /\ Emitted("warning_high_load_events")

Decided == Enforced \cup {"apply_safety_floor"}

\* C21: with the static override enabled the peripheral zone is decided as the override
\* speed with load state static, whatever its temperature is (none included) and
\* whatever the thresholds would give for it; the cpu zone is never static.
C21_StaticOverrideDecidesPeripheral ==
    /\ (pc = "apply_safety_floor" /\ config.static_peripheral.enabled) =>
           /\ new_speeds["peripheral"] = config.static_peripheral.speed
           /\ load_states["peripheral"] = "static"
    /\ pc \in Decided => load_states["cpu"] # "static"

C21_Witness ==
    /\ pc = "apply_safety_floor"
    /\ config.static_peripheral.enabled
    /\ periph_temp = None
    /\ cpu_temp >= config.thresholds.emergency
    /\ load_states = [ cpu |-> "emergency", peripheral |-> "static" ]

(***************************************************************************)
(* Properties of the telemetry, of the order of an iteration and of the    *)
(* start of the program.                                                   *)
(***************************************************************************)
\* the step of an iteration that appends its sample to the telemetry
Logging == Step("log_temp", "check_alerts")

\* the sample of the iteration, as log_temp is given it
Sample ==
    [ timestamp |-> now, temps |-> all_temps, fan_speeds |-> current_speeds,
      load_states |-> load_states ]

\* C22: the telemetry ring never holds more samples than its configured capacity; an
\* append leaves in it the new sample last, before it the most recent of the samples
\* it held, in their order, as many as the capacity allows, the oldest being evicted:
\* after n appends the ring holds the most recent min(n, capacity) samples in order.
C22_RingHoldsMostRecent ==
    /\ [](Len(temp_log) <= config.logging.temp_log_size)
    /\ [][Logging =>
            LET capacity == config.logging.temp_log_size
                held == IF Len(temp_log) + 1 <= capacity THEN Len(temp_log) + 1
                        ELSE capacity
                evicted == Len(temp_log) + 1 - held
            IN /\ Len(temp_log') = held
               /\ held > 0 => temp_log'[held] = Sample
               /\ \A i \in 1..(held - 1) : temp_log'[i] = temp_log[i + evicted]
               /\ evicted \in {0, 1}]_vars
    /\ [][~Logging => Len(temp_log') = Len(temp_log)]_vars

C22_Witness ==
    /\ pc = "check_alerts"
    /\ config.logging.temp_log_size = 2
    /\ Len(temp_log) = 2
    /\ temp_log[1].timestamp > 0
    /\ temp_log[2].timestamp = now

\* the samples of the telemetry taken at a time
TakenAt(log, t) == { log[i] : i \in { j \in 1..Len(log) : log[j].timestamp = t } }

Notifying == Step("notify_watchdog", "sleep")

\* the interval adjust_polling gives for the load states of the iteration
Recomputed ==
    IF worst_of(load_states) \in HighLoad THEN config.polling.high_load
    ELSE config.polling.normal

\* C24 (as stated): every iteration that runs to completion has emitted exactly one
\* liveness notification when it comes to its sleep, and an iteration abandoned
\* because of a failure has emitted none.
C24_OneNotificationPerCompletedTick ==
    /\ pc = "sleep" => CountOf("watchdog") = 1
    /\ pc = "except" => CountOf("watchdog") = 0

\* C24 (amended): where the systemd module is available, an iteration emits exactly
\* one liveness notification, at the step that follows the recomputation of the poll
\* interval and precedes the sleep; an iteration skipped or abandoned before that step
\* has emitted none (one abandoned in the sleep itself has emitted its one); where the
\* module is not available no notification is ever emitted.
C24_NotificationWhereSystemdAvailable ==
    /\ [](pc = "sleep" => CountOf("watchdog") = IF SYSTEMD_WATCHDOG THEN 1 ELSE 0)
    /\ [](pc \notin {"sleep", "except", "terminated"} => CountOf("watchdog") = 0)
    /\ [](pc \in {"except", "terminated"} /\ CountOf("watchdog") # 0 =>
             /\ SYSTEMD_WATCHDOG
             /\ CountOf("watchdog") = 1
             /\ poll_interval < 0
             /\ out[Len(out) - 1] = Note("watchdog"))
    /\ [][Notifying =>
            /\ poll_interval = Recomputed
            /\ UNCHANGED << poll_interval, now >>
            /\ Written = IF SYSTEMD_WATCHDOG THEN << Note("watchdog") >> ELSE << >>]_vars

C24_Witness ==
    /\ pc = "sleep"
    /\ SYSTEMD_WATCHDOG
    /\ CountOf("watchdog") = 1
    /\ out[Len(out)] = Note("watchdog")
    /\ poll_interval = config.polling.high_load
    /\ poll_interval > 0

\* the position that follows each position of the second half of an iteration
Following ==
    [ update_cpu |-> "update_peripheral", update_peripheral |-> "log_temp",
      log_temp |-> "check_alerts", check_alerts |-> "adjust_polling",
      adjust_polling |-> "notify_watchdog", notify_watchdog |-> "sleep" ]

\* the step commands the fans of a zone
Actuating == \E z \in ZoneSet : Issued(z) # {}

\* the step writes an alert of check_alerts
Alerting ==
    \E i \in (Len(out) + 1)..Len(out') :
        out'[i].ev \in {"alert_emergency", "warning_sustained_high_load",
                        "warning_high_load_events"}

\* C25: an iteration that completes does its work in this order: the actuation of the
\* zones, the append to the telemetry, the evaluation of the alerts, the recomputation
\* of the poll interval, the liveness signal, the sleep; each is done at its own step
\* and at no other, and the sleep lasts the interval recomputed in this iteration.
C25_OrderOfCompletedTick ==
    /\ [][(pc \in DOMAIN Following) => pc' = Following[pc]]_vars
    /\ [][Actuating \/ current_speeds' # current_speeds =>
            pc \in {"update_cpu", "update_peripheral"}]_vars
    /\ [][temp_log' # temp_log => Logging /\ temp_log'[Len(temp_log')] = Sample]_vars
    /\ [][Alerting \/ AlertVars' # AlertVars => Checking]_vars
    /\ [][poll_interval' # poll_interval => Step("adjust_polling", "notify_watchdog")]_vars
    /\ [][Step("adjust_polling", "notify_watchdog") =>
            poll_interval' = Recomputed /\ worst_state = worst_of(load_states)]_vars
    /\ [][Added("watchdog") > 0 => Notifying /\ poll_interval = Recomputed]_vars
    /\ [][now' # now => pc \in {"sleep", "no_temps_sleep", "except"}]_vars
    /\ [][Step("sleep", "get_all_temps") =>
            poll_interval = Recomputed /\ now' = now + poll_interval]_vars

C25_Witness ==
    /\ pc = "get_all_temps"
    /\ poll_interval = config.polling.high_load
    /\ poll_interval # config.polling.normal
    /\ temp_log # << >>
    /\ temp_log[Len(temp_log)].timestamp = now - poll_interval
    /\ temp_log[Len(temp_log)].load_states["cpu"] = "emergency"
    /\ worst_state = "emergency"

\* C26: a configuration file that is missing or is no valid YAML makes the program
\* exit with status 1 before the loop starts and before any fan is commanded; once
\* the loop runs, no failed sensor read, failed actuation or failed iteration ends it.
C26_OnlyStartupFailureIsFatal ==
    /\ pc = "exit_1" =>
           /\ out = << Note("error_config") >>
           /\ current_speeds = NoSpeeds
           /\ temp_log = << >>
           /\ now = 0
    /\ pc # "terminated"

\* max(all_temps.values())
MaxTemp(temps) == MaxOf({ temps[s] : s \in Keys(temps) })

\* the maximum reading of the latest iteration that took a sample
Previous == MaxTemp(temp_log[Len(temp_log)].temps)

Entering == worst_of(load_states) \in HighLoad /\ high_load_start = None

\* the events of the window that are not older than the window is wide
InWindow(events) ==
    LET Recent(t) == now - t <= config.alerts.high_load_event_window
    IN SelectSeq(events, Recent)

\* the evaluation of the alerts warns of the number of events
Warned == Added("warning_high_load_events") > 0

\* C28: the evaluation of the alerts appends an event, stamped with its time, to the
\* window exactly when the worst state is high or emergency and the timer was not
\* running; an iteration that continues a run of high load and an iteration outside
\* high load append none, and no other step changes the window.
C28_EventOnlyOnEntry ==
    /\ [][Checking =>
            /\ Elements(high_load_events') \subseteq
                   Elements(high_load_events) \cup (IF Entering THEN {now} ELSE {})
            /\ (Entering /\ ~Warned) =>
                   /\ high_load_events' # << >>
                   /\ high_load_events'[Len(high_load_events')] = now
                   /\ Len(high_load_events') = Len(InWindow(high_load_events)) + 1
            /\ (Entering /\ Warned) =>
                   Len(InWindow(high_load_events)) + 1
                      = config.alerts.high_load_event_threshold
            /\ ~Entering =>
                   /\ ~Warned
                   /\ high_load_events' = InWindow(high_load_events)]_vars
    /\ [][~Checking => high_load_events' = high_load_events]_vars
    /\ [](\A i \in 1..Len(high_load_events) : pc = "check_alerts" => high_load_events[i] < now)

\* C28 happens: the second iteration of a run of high load has added no event to the
\* one of the first
C28_Witness ==
    /\ pc = "adjust_polling"
    /\ worst_state \in HighLoad
    /\ high_load_start = 0
    /\ now = 1
    /\ high_load_events = << 0 >>

\* the age of an event at the evaluation of the alerts
Age(t) == now - t

\* C29: before the events are counted, exactly those strictly older than the window
\* is wide are removed: an event whose age equals the width of the window is kept
\* and counted, the warning being given exactly when the events of the window (the
\* one of this iteration included) that are not older than the width reach the
\* threshold.
C29_PurgeStrictlyOlder ==
    [][Checking =>
         LET width == config.alerts.high_load_event_window
             entries == IF Entering THEN Append(high_load_events, now)
                        ELSE high_load_events
             counted == { i \in 1..Len(entries) : Age(entries[i]) <= width }
         IN /\ Warned <=> Cardinality(counted) >= config.alerts.high_load_event_threshold
            /\ ~Warned =>
                  /\ Len(high_load_events') = Cardinality(counted)
                  /\ \A t \in Elements(high_load_events) :
                        t \in Elements(high_load_events') <=> Age(t) <= width]_vars

\* C29 happens: an event as old as the window is wide has been kept
C29_Witness ==
    /\ pc = "adjust_polling"
    /\ high_load_events # << >>
    /\ Age(high_load_events[1]) = config.alerts.high_load_event_window
    /\ ~Emitted("warning_high_load_events")

\* the iteration finds that no sensor of any zone can be read
Skipping == Step("get_all_temps", "no_temps_sleep")

LoadStates == {"idle", "moderate", "high", "emergency", "error", "static"}

\* the load states of the two zones in an iteration
Loads(cpu, peripheral) == [ cpu |-> cpu, peripheral |-> peripheral ]

C31_StaticNotWorst ==
    /\ pc = "notify_watchdog"
    /\ load_states = Loads("idle", "static")
    /\ worst_state = "idle"

\* the positions of an iteration at which its alerts have been evaluated
Evaluated == {"adjust_polling", "notify_watchdog", "sleep"}

\* C32: in every state the latch of the sustained load is set only while the start of
\* the high load is set, and so is the emergency latch; once an iteration has
\* evaluated its alerts, the start is set exactly when its worst state is high or
\* emergency, and the emergency latch exactly when its worst state is emergency.
C32_LatchesFollowWorstState ==
    /\ high_load_alerted => high_load_start # None
    /\ emergency_active => high_load_start # None
    /\ pc \in Evaluated =>
          /\ high_load_start # None <=> worst_of(load_states) \in HighLoad
          /\ emergency_active <=> worst_of(load_states) = "emergency"

\* C32 happens: an iteration in emergency, at its sleep, with the two latches set
C32_Witness ==
    /\ pc = "sleep"
    /\ worst_of(load_states) = "emergency"
    /\ high_load_alerted
    /\ emergency_active
    /\ high_load_start # None
    /\ high_load_start < now

\* C33: with an event threshold N >= 1, the window holds fewer than N events once an
\* iteration has evaluated its alerts, and in every state it holds at most MaxEvents
\* events; with N > MaxEvents the warning of the number of events is never written,
\* however many entries of high load fall inside the window.
C33_WindowBelowThresholdAndCapacity ==
    LET threshold == config.alerts.high_load_event_threshold
    IN /\ Len(high_load_events) <= MaxEvents
       /\ (pc \in Evaluated /\ threshold >= 1) => Len(high_load_events) < threshold
       /\ threshold > MaxEvents => ~Emitted("warning_high_load_events")

\* C33 happens: one more entry of high load into a full window, below a threshold
\* that the window cannot reach
C33_Witness ==
    /\ pc = "adjust_polling"
    /\ config.alerts.high_load_event_threshold > MaxEvents
    /\ Len(high_load_events) = MaxEvents
    /\ high_load_start = now
    /\ ~Emitted("warning_high_load_events")

\* the evaluation of the alerts warns of the sustained load
WarnedSustained == Added("warning_sustained_high_load") > 0

\* C34: with an event threshold of at least 1, the warning of the number of events is
\* written only by an evaluation that appended an event (an entry of high load), and
\* the warning of the sustained load is never written by such an evaluation: no
\* evaluation writes the two, and no other step writes either.
C34_EventWarningOnlyOnEntry ==
    /\ [][Checking =>
            /\ Warned => Entering
            /\ Entering => ~WarnedSustained
            /\ ~(Warned /\ WarnedSustained)]_vars
    /\ [][(~Checking /\ out' # << >>) => ~Warned /\ ~WarnedSustained]_vars

\* C34 happens: an entry of high load that warns of the number of events and not of
\* the sustained load, the threshold of the sustained load being already reached at 0
C34_Witness ==
    /\ pc = "adjust_polling"
    /\ config.alerts.sustained_high_load = 0
    /\ config.alerts.high_load_event_threshold >= 1
    /\ high_load_start = now
    /\ Emitted("warning_high_load_events")
    /\ ~Emitted("warning_sustained_high_load")
====
